---- MODULE Spec2Model ----
(***************************************************************************)
(* Challenge Detection & Resolution Engine of camoufox_captcha:            *)
(* solve_captcha / solve_cloudflare_by_click, the Challenge Detector       *)
(* (safe_query, detect_cloudflare_challenge), the Expected-Content         *)
(* Detector, and the collaborators they drive (page, browser context,      *)
(* Locator, Waiter, checkbox click).                                       *)
(***************************************************************************)
EXTENDS Integers, Sequences, FiniteSets, TLC

(* ------------------------------ bounds --------------------------------- *)

\* largest solve_attempts a caller passes
MaxSolveAttempts == 2
\* largest checkbox_click_attempts a caller passes
MaxClickAttempts == 2
\* number of replacement pages the browser context can hand out in one call
MaxPages == 1
\* largest number of iframes the Locator returns
MaxIframes == 1

\* largest `attempts` passed to get_ready_checkbox
MaxWaitAttempts == 2

\* longest list of iframes passed to get_ready_checkbox
MaxWaiterIframes == 2

\* most checkboxes one search_shadow_root_elements call returns
MaxCheckboxes == 2

\* most shadow roots get_shadow_roots returns
MaxShadowRoots == 2

\* most iframe elements inside one shadow root
MaxRootIframes == 2

\* largest max_retries passed to safe_goto
MaxGotoRetries == 3

\* longest wait_untils list passed to safe_goto
MaxWaitUntils == 2

\* most elements in the document get_shadow_roots runs on
MaxElements == 3

(* ------------------------- program constants --------------------------- *)

\* attempt_delay: int = 5 (seconds between outer attempts, default)
attempt_delay == 5

\* solve_click_delay: int = 6 (seconds to wait after the click, default)
solve_click_delay == 6

\* await asyncio.sleep(2) before `return False`
FinalSleep == 2

\* safe_query(page, selector, retries=3, delay=2)
SafeQueryRetries == 3

\* safe_query(page, selector, retries=3, delay=2): seconds of back-off
SafeQueryDelay == 2

\* CF_INTERSTITIAL_INDICATORS_SELECTORS
CF_INTERSTITIAL_INDICATORS_SELECTORS ==
    << "script[src*=/cdn-cgi/challenge-platform/]" >>

\* CF_TURNSTILE_INDICATORS_SELECTORS
CF_TURNSTILE_INDICATORS_SELECTORS ==
    << "input[name=cf-turnstile-response]",
       "script[src*=challenges.cloudflare.com/turnstile/v0]" >>

\* the caller's expected-content selector, when one is configured
ExpectedSelector == "#main-content"

\* expected_content_selector = None
NoSelector == ""

\* every selector a document of the model can hold
AllSelectors ==
    { CF_INTERSTITIAL_INDICATORS_SELECTORS[i] :
          i \in 1..Len(CF_INTERSTITIAL_INDICATORS_SELECTORS) }
    \cup { CF_TURNSTILE_INDICATORS_SELECTORS[i] :
          i \in 1..Len(CF_TURNSTILE_INDICATORS_SELECTORS) }
    \cup { ExpectedSelector }

\* challenge_type values a caller may pass: the two supported ones, an
\* unsupported one, and the empty (falsy / missing) one
ChallengeTypeArgs == { "interstitial", "turnstile", "hcaptcha", "" }

SupportedChallengeTypes == { "turnstile", "interstitial" }

(* ------------------------------- state --------------------------------- *)

VARIABLES
    pc,                 \* position of the call, the await it is about to
                        \* issue: idle, loop, probe, newpage, detect, query,
                        \* backoff, expected, loadstate, locate, wait, click,
                        \* done
    entry,              \* public entry point of the current call
    arg_challenge_type, \* challenge_type as the caller passed it
    challenge_type,     \* challenge_type as solve_cloudflare_by_click sees it
    expected_content_selector,
    solve_attempts,
    checkbox_click_attempts,
    wait_checkbox_attempts,
    debug,              \* logger.isEnabledFor(logging.DEBUG), as of now
    has_context,        \* the caller passed a browser_context
    attempt,            \* loop variable of the outer for
    checkbox_click_attempt, \* loop variable of the click for
    queryable,          \* active page: 0 the caller's, k the k-th new_page()
    closed,             \* pages that are closed / crashed
    dom,                \* selectors present in the active page's document
    phase,              \* "pre" (step 1) or "verify" (step 5) detection
    probeSite,          \* which of the four debug body-text probes runs
    selIdx,             \* index into the indicator list inside the detector
    safeAttempt,        \* loop variable of safe_query
    cloudflare_detected,
    expected_content_detected,
    outcome,            \* how the call ended
    stats,              \* per-call operation counters
    att,                \* per-outer-attempt operation counters
    firstPassCf,        \* what the first Challenge Detector run returned
    lastPass,           \* result of the last finished detection pass
    everSignal,         \* some finished pass saw indicator absent / content
    observedClosed,     \* pages on which the call saw target-closed
    stable,             \* page state unchanged since the last detection
                        \* pass began
    repeatCall,         \* this call repeats a call that returned true on the
                        \* same page state with the same arguments
    matched_iframes,    \* frames the running search_shadow_root_iframes call
                        \* has appended so far (their number)
    cf_selectors,       \* the two module-level indicator selector lists
    detector,           \* one call of detect_cloudflare_challenge, step by
                        \* step: its arguments, loop variables and trace
    waiter,             \* one call of get_ready_checkbox, step by step
    locator,            \* one call of search_shadow_root_iframes, step by
                        \* step, with the shadow DOM it runs on
    nav,                \* one call of safe_goto, step by step
    collector           \* one call of get_shadow_roots, step by step, with
                        \* the document it runs on

\* state of the solver call
solverVars ==
    << pc, entry, arg_challenge_type, challenge_type,
       expected_content_selector, solve_attempts, checkbox_click_attempts,
       wait_checkbox_attempts, debug, has_context, attempt, checkbox_click_attempt, queryable, closed,
       dom, phase,
       probeSite, selIdx, safeAttempt, cloudflare_detected,
       expected_content_detected, outcome, stats, att,
       firstPassCf, lastPass, everSignal, observedClosed, stable, repeatCall,
       matched_iframes >>

\* state of the components when they are called on their own
subVars == << cf_selectors, detector, waiter, locator, nav, collector >>

vars == << solverVars, subVars >>

\* the arguments of the call
args ==
    << entry, arg_challenge_type, challenge_type, expected_content_selector,
       solve_attempts, checkbox_click_attempts, wait_checkbox_attempts,
       has_context >>

\* what the call is given: its arguments and the level of the logger
params == << args, debug >>

detectorVars == << selIdx, safeAttempt >>

ZeroStats ==
    [ detect |-> 0, locate |-> 0, wait |-> 0, click |-> 0, newpage |-> 0,
      newpageFail |-> 0, locEmpty |-> 0, waitNone |-> 0, stale |-> 0,
      afterCreateFail |-> 0, slept |-> 0 ]

ZeroAtt ==
    [ detect |-> 0, locate |-> 0, wait |-> 0, click |-> 0, clickOk |-> 0,
      verify |-> 0, sleptAtClick |-> 0, present |-> 0, iframes |-> 0,
      pair |-> 0, rounds |-> 0 ]

Bump(rec, field) == [ rec EXCEPT ![field] = @ + 1 ]

\* await asyncio.sleep(secs) in solve_cloudflare_by_click
Sleep(st, secs) == [ st EXCEPT !.slept = @ + secs ]

\* detection.py as loaded: the two lists
SelectorLists ==
    [ interstitial |-> CF_INTERSTITIAL_INDICATORS_SELECTORS,
      turnstile |-> CF_TURNSTILE_INDICATORS_SELECTORS ]

\* no call of detect_cloudflare_challenge is in progress
DetectorIdle ==
    [ pc |-> "idle", challenge_type |-> "turnstile", page |-> {},
      selectors |-> << >>, idx |-> 1, attempt |-> 0, trace |-> << >>,
      result |-> "none" ]

\* no call of get_ready_checkbox is in progress
WaiterIdle ==
    [ pc |-> "idle", iframes |-> << >>, arg_attempts |-> 0, attempts |-> 0,
      attempt |-> 0, i |-> 1, k |-> 1, checkboxes |-> << >>,
      visible_checkboxes |-> << >>, attached |-> {}, seenVisible |-> {},
      everVisible |-> FALSE, rounds |-> 0, slept |-> 0, ends |-> << >>,
      result |-> "none", pair |-> << >> ]

\* no call of search_shadow_root_iframes is in progress
LocatorIdle ==
    [ pc |-> "idle", dom |-> << >>, r |-> 1, elements |-> << >>, j |-> 1,
      matched_iframes |-> << >>, failed |-> "none", failedAt |-> 0,
      result |-> "none" ]

\* no call of safe_goto is in progress
NavIdle ==
    [ pc |-> "idle", max_retries |-> 0, wait_untils |-> 0, attempt |-> 1,
      w |-> 1, page |-> 0, gotos |-> 0, newpages |-> 0, last_exc |-> 0,
      lastOk |-> -1, lastCall |-> "none", result |-> "none" ]

\* no call of get_shadow_roots is in progress
CollectorIdle ==
    [ pc |-> "idle", parent |-> << >>, via |-> << >>, hosts |-> {},
      queryable |-> 0, handle |-> << >>, shadow_roots |-> << >>,
      result |-> "none" ]

SubInit ==
    /\ cf_selectors = SelectorLists
    /\ detector = DetectorIdle
    /\ waiter = WaiterIdle
    /\ locator = LocatorIdle
    /\ nav = NavIdle
    /\ collector = CollectorIdle

Init ==
    /\ pc = "idle"
    /\ entry = "solve_captcha"
    /\ arg_challenge_type = "interstitial"
    /\ challenge_type = "interstitial"
    /\ expected_content_selector = NoSelector
    /\ solve_attempts = 0
    /\ checkbox_click_attempts = 0
    /\ wait_checkbox_attempts = 0
    /\ debug = FALSE
    /\ has_context = FALSE
    /\ attempt = 0
    /\ checkbox_click_attempt = 0
    /\ queryable = 0
    /\ closed = {}
    /\ dom = {}
    /\ phase = "pre"
    /\ probeSite = 1
    /\ selIdx = 1
    /\ safeAttempt = 0
    /\ cloudflare_detected = FALSE
    /\ expected_content_detected = FALSE
    /\ outcome = "none"
    /\ stats = ZeroStats
    /\ att = ZeroAtt
    /\ firstPassCf = "none"
    /\ lastPass = "none"
    /\ everSignal = FALSE
    /\ observedClosed = {}
    /\ stable = FALSE
    /\ repeatCall = FALSE
    /\ matched_iframes = 0
    /\ SubInit

(* --------------------------- control helpers --------------------------- *)

ctrl ==
    << pc, attempt, checkbox_click_attempt, phase, probeSite, selIdx,
       safeAttempt, outcome, stats, att >>

pageVars == << queryable, closed, dom, observedClosed >>

passVars ==
    << cloudflare_detected, expected_content_detected, firstPassCf, lastPass,
       everSignal >>

\* an operation issued against the active queryable: counted as stale when
\* the call already saw that page closed, and as late when a new_page() of
\* the call already failed
Op(st) ==
    LET a == IF queryable \in observedClosed THEN Bump(st, "stale") ELSE st
    IN  IF st.newpageFail > 0 THEN Bump(a, "afterCreateFail") ELSE a

\* what an operation on the active page can meet: a closed page fails every
\* operation with TargetClosedError; a live page can crash under it
PageOutcomes(others) ==
    IF queryable \in closed THEN { "closed" }
    ELSE others \cup (IF queryable < MaxPages THEN { "closed" } ELSE {})

\* the operation met a page that was live and is closed now
Crashed(o) == o = "closed" /\ queryable \notin closed

\* the page after an operation on it that ended with `o`; `seen` when the
\* failure reaches the code of solve_cloudflare_by_click
PageAfter(o, seen) ==
    /\ closed' = IF o = "closed" THEN closed \cup { queryable } ELSE closed
    /\ observedClosed' =
          IF o = "closed" /\ seen THEN observedClosed \cup { queryable }
          ELSE observedClosed
    /\ UNCHANGED << queryable, dom >>

\* bookkeeping of the page state: a detection pass that begins sees the page
\* as it is; a crash or a replacement changes the page state
Stability(entersDetect, disturbed) ==
    /\ stable' = IF entersDetect THEN TRUE
                 ELSE IF disturbed THEN FALSE ELSE stable
    /\ repeatCall' = IF disturbed THEN FALSE ELSE repeatCall

Goto(label, st, at) ==
    /\ pc' = label
    /\ stats' = st
    /\ att' = at
    /\ UNCHANGED << attempt, checkbox_click_attempt, phase, probeSite, selIdx,
                    safeAttempt, outcome >>

\* return / raise out of solve_cloudflare_by_click
Finish(res, st, at) ==
    /\ pc' = "done"
    /\ outcome' = res
    /\ stats' = st
    /\ att' = at
    /\ UNCHANGED << attempt, checkbox_click_attempt, phase, probeSite, selIdx,
                    safeAttempt >>

\* variant: `continue` does not advance the loop variable
ContinueSameAttempt(st, at) ==
    /\ pc' = "loop"
    /\ attempt' = attempt
    /\ stats' = st
    /\ att' = at
    /\ UNCHANGED << checkbox_click_attempt, phase, probeSite, selIdx,
                    safeAttempt, outcome >>

\* `continue` of the outer for loop
Continue(st, at) ==
    /\ pc' = "loop"
    /\ attempt' = attempt + 1
    /\ stats' = st
    /\ att' = at
    /\ UNCHANGED << checkbox_click_attempt, phase, probeSite, selIdx,
                    safeAttempt, outcome >>

\* call of detect_cloudflare_challenge at step 1 ("pre") or step 5 ("verify")
EnterDetect(ph, st, at) ==
    /\ pc' = "detect"
    /\ phase' = ph
    /\ selIdx' = 1
    /\ safeAttempt' = 0
    /\ stats' = Bump(st, "detect")
    /\ att' = IF ph = "verify" THEN Bump(Bump(at, "detect"), "verify")
              ELSE Bump(at, "detect")
    /\ UNCHANGED << attempt, checkbox_click_attempt, probeSite, outcome >>

EnterProbe(site, st, at) ==
    /\ pc' = "probe"
    /\ probeSite' = site
    /\ stats' = st
    /\ att' = at
    /\ UNCHANGED << attempt, checkbox_click_attempt, phase, selIdx,
                    safeAttempt, outcome >>

(* ------------------------------ the calls ------------------------------ *)

\* selectors = CF_TURNSTILE_... if challenge_type == 'turnstile' else
\* CF_INTERSTITIAL_...
IndicatorSelectors(ct) ==
    IF ct = "turnstile" THEN CF_TURNSTILE_INDICATORS_SELECTORS
    ELSE CF_INTERSTITIAL_INDICATORS_SELECTORS

\* the selectors a call with these arguments can query; no other part of
\* the document is ever read by it
Readable(ct, sel) ==
    { IndicatorSelectors(ct)[i] : i \in 1..Len(IndicatorSelectors(ct)) }
    \cup (IF sel = NoSelector THEN {} ELSE { sel })

\* the state a call starts from
Start(ep, argType, effType, sel, sa, cca, wca, dbg, again) ==
    /\ entry' = ep
    /\ arg_challenge_type' = argType
    /\ challenge_type' = effType
    /\ expected_content_selector' = sel
    /\ solve_attempts' = sa
    /\ checkbox_click_attempts' = cca
    /\ wait_checkbox_attempts' = wca
    /\ debug' = dbg
    /\ attempt' = 0
    /\ checkbox_click_attempt' = 0
    /\ phase' = "pre"
    /\ probeSite' = 1
    /\ selIdx' = 1
    /\ safeAttempt' = 0
    /\ cloudflare_detected' = FALSE
    /\ expected_content_detected' = FALSE
    /\ stats' = ZeroStats
    /\ att' = ZeroAtt
    /\ firstPassCf' = "none"
    /\ lastPass' = "none"
    /\ everSignal' = FALSE
    /\ observedClosed' = {}
    /\ repeatCall' = again
    /\ queryable' = 0

\* the page the caller passes: its document (as far as the call can read
\* it) and whether it is closed already
CallerPage(effType, sel) ==
    /\ dom' \in SUBSET Readable(effType, sel)
    /\ closed' \in { {}, { 0 } }
    /\ stable' = FALSE

\* the call of solve_cloudflare_by_click binds its arguments:
\* browser_context is a required positional parameter, and a call without
\* it raises TypeError before the body runs
Bind(ctx) ==
    /\ pc' = IF ctx THEN "loop" ELSE "done"
    /\ outcome' = IF ctx THEN "none" ELSE "TypeError"

\* solve_captcha(queryable, captcha_type, challenge_type, method, **kwargs)
solve_captcha ==
    /\ pc = "idle"
    /\ \E captcha_type \in { "cloudflare", "recaptcha" },
          method \in { "None", "click", "api" },
          argType \in ChallengeTypeArgs,
          sel \in { NoSelector, ExpectedSelector },
          sa \in -1..MaxSolveAttempts,
          cca \in 0..MaxClickAttempts,
          wca \in 0..MaxWaitAttempts,
          dbg \in BOOLEAN,
          ctx \in BOOLEAN :
          LET defaulted == IF argType = "" THEN "interstitial" ELSE argType
              accepted == /\ captcha_type = "cloudflare"
                          /\ defaulted \in SupportedChallengeTypes
                          /\ method \in { "None", "click" }
          IN  /\ Start("solve_captcha", argType, defaulted, sel, sa, cca, wca,
                       dbg, FALSE)
              /\ CallerPage(defaulted, sel)
              /\ has_context' = ctx
              /\ IF accepted THEN Bind(ctx)
                 ELSE pc' = "done" /\ outcome' = "ValueError"
    /\ UNCHANGED << matched_iframes, subVars >>

\* solve_cloudflare_by_click(queryable, browser_context, challenge_type, ...)
solve_cloudflare_by_click ==
    /\ pc = "idle"
    /\ \E argType \in ChallengeTypeArgs,
          sel \in { NoSelector, ExpectedSelector },
          sa \in -1..MaxSolveAttempts,
          cca \in 0..MaxClickAttempts,
          wca \in 0..MaxWaitAttempts,
          dbg \in BOOLEAN,
          ctx \in BOOLEAN :
          /\ Start("solve_cloudflare_by_click", argType, argType, sel, sa,
                   cca, wca, dbg, FALSE)
          /\ CallerPage(argType, sel)
          /\ has_context' = ctx
          /\ Bind(ctx)
    /\ UNCHANGED << matched_iframes, subVars >>

\* the caller got true and calls again at once: same entry point, same
\* arguments, same page, and the page state is the one the last detection
\* pass of the first call saw
CallAgain ==
    /\ pc = "done"
    /\ outcome = "true"
    /\ stable
    /\ queryable = 0
    /\ 0 \notin closed
    /\ Start(entry, arg_challenge_type, challenge_type,
             expected_content_selector, solve_attempts,
             checkbox_click_attempts, wait_checkbox_attempts, debug, TRUE)
    /\ pc' = "loop"
    /\ outcome' = "none"
    /\ UNCHANGED << dom, closed, stable, has_context >>
    /\ UNCHANGED << matched_iframes, subVars >>

\* the caller takes the result (or the exception); nothing of the call
\* survives it
Return ==
    /\ pc = "done"
    /\ pc' = "idle"
    /\ entry' = "solve_captcha"
    /\ arg_challenge_type' = "interstitial"
    /\ challenge_type' = "interstitial"
    /\ expected_content_selector' = NoSelector
    /\ solve_attempts' = 0
    /\ checkbox_click_attempts' = 0
    /\ wait_checkbox_attempts' = 0
    /\ debug' = FALSE
    /\ has_context' = FALSE
    /\ attempt' = 0
    /\ checkbox_click_attempt' = 0
    /\ queryable' = 0
    /\ closed' = {}
    /\ dom' = {}
    /\ phase' = "pre"
    /\ probeSite' = 1
    /\ selIdx' = 1
    /\ safeAttempt' = 0
    /\ cloudflare_detected' = FALSE
    /\ expected_content_detected' = FALSE
    /\ outcome' = "none"
    /\ stats' = ZeroStats
    /\ att' = ZeroAtt
    /\ firstPassCf' = "none"
    /\ lastPass' = "none"
    /\ everSignal' = FALSE
    /\ observedClosed' = {}
    /\ stable' = FALSE
    /\ repeatCall' = FALSE
    /\ UNCHANGED << matched_iframes, subVars >>

(* --------------------------- the environment --------------------------- *)

\* the page under the caller's handle changes its document by itself while
\* the call runs (navigation, the challenge script adding or removing a
\* marker): one element appears or disappears at a time
PageMutates ==
    /\ pc \notin { "idle", "done" }
    /\ queryable = 0
    /\ 0 \notin closed
    /\ \E e \in Readable(challenge_type, expected_content_selector) :
          dom' = IF e \in dom THEN dom \ { e } ELSE dom \cup { e }
    /\ stable' = FALSE
    /\ repeatCall' = FALSE
    /\ UNCHANGED << params, ctrl, passVars, queryable, closed,
                    observedClosed >>
    /\ UNCHANGED << matched_iframes, subVars >>

\* Logger.set_level(level), run by another task (every Logger(level=...)
\* runs it) while the call is suspended in an await: the level that
\* logger.isEnabledFor(logging.DEBUG) reads changes
set_level ==
    /\ pc \notin { "idle", "done" }
    /\ debug' = ~debug
    /\ UNCHANGED << args, ctrl, passVars, pageVars, stable, repeatCall >>
    /\ UNCHANGED << matched_iframes, subVars >>

(* ------------------- solve_cloudflare_by_click: steps ------------------ *)

\* variant: the delay is also slept before the first attempt
InterAttemptSleepAlways(a) == attempt_delay

\* if attempt > 0: await asyncio.sleep(attempt_delay)
InterAttemptSleep(a) == IF a > 0 THEN attempt_delay ELSE 0

\* for attempt in range(solve_attempts): ... else fall out, sleep, False
Loop ==
    /\ pc = "loop"
    /\ IF attempt < solve_attempts
       THEN LET st == Sleep(stats, InterAttemptSleep(attempt))
            IN  IF debug
                THEN EnterProbe(1, st, ZeroAtt) /\ Stability(FALSE, FALSE)
                ELSE EnterDetect("pre", st, ZeroAtt) /\ Stability(TRUE, FALSE)
       ELSE Finish("false", Sleep(stats, FinalSleep), att)
            /\ Stability(FALSE, FALSE)
    /\ UNCHANGED << params, pageVars, passVars >>
    /\ UNCHANGED << matched_iframes, subVars >>

\* variant: the creation error is logged and swallowed
CreateFailureSwallowed == FALSE

\* raise create_exc
CreateFailurePropagates == TRUE

\* what follows each of the four debug probes
AfterProbe(site, st) ==
    CASE site = 1 -> EnterDetect("pre", st, att)
      [] site = 2 -> Finish("true", st, att)
      [] site = 3 -> EnterDetect("verify", st, att)
      [] OTHER    -> Finish("true", st, att)

ProbeEntersDetect(site) == site \in { 1, 3 }

\* if logger.isEnabledFor(logging.DEBUG): try: body_text = await
\* queryable.locator('body').inner_text(); except TargetClosedError: log
Probe ==
    /\ pc = "probe"
    /\ \E o \in PageOutcomes({ "ok", "error" }) :
          /\ PageAfter(o, TRUE)
          /\ CASE o = "ok" ->
                 /\ AfterProbe(probeSite, Op(stats))
                 /\ Stability(ProbeEntersDetect(probeSite), FALSE)
            [] o = "error" ->
                 /\ Finish("raise_error", Op(stats), att)
                 /\ Stability(FALSE, FALSE)
            [] OTHER ->
                 /\ Goto("newpage", Op(stats), att)
                 /\ Stability(FALSE, Crashed(o))
    /\ UNCHANGED << params, passVars >>
    /\ UNCHANGED << matched_iframes, subVars >>

\* try: queryable = await browser_context.new_page()
\* except Exception as create_exc: log; raise create_exc
ProbeNewPage ==
    /\ pc = "newpage"
    /\ \E created \in BOOLEAN :
          IF created
          THEN /\ AfterProbe(probeSite, Bump(stats, "newpage"))
               /\ queryable' = queryable + 1
               /\ dom' = {}
               /\ UNCHANGED << closed, observedClosed >>
               /\ Stability(ProbeEntersDetect(probeSite), TRUE)
          ELSE /\ LET st == Bump(Bump(stats, "newpage"), "newpageFail")
                   IN  IF CreateFailurePropagates
                       THEN Finish("raise_create", st, att)
                            /\ Stability(FALSE, FALSE)
                       ELSE AfterProbe(probeSite, st)
                            /\ Stability(ProbeEntersDetect(probeSite), FALSE)
               /\ UNCHANGED pageVars
    /\ UNCHANGED << params, passVars >>
    /\ UNCHANGED << matched_iframes, subVars >>

\* if 'Execution context was destroyed' in str(e) and attempt < retries - 1
ShouldRetry(o, a) == o = "destroyed" /\ a < SafeQueryRetries - 1

\* page.query_selector(selector): the element or None
QuerySelector(selector) == selector \in dom

\* the Challenge Detector returned `cf`
DetectorReturns(cf) ==
    /\ cloudflare_detected' = cf
    /\ firstPassCf' = IF stats.detect = 1
                      THEN (IF cf THEN "present" ELSE "absent")
                      ELSE firstPassCf
    /\ UNCHANGED << expected_content_detected, lastPass, everSignal >>

\* an exception leaves the detection pass
PassRaises ==
    /\ lastPass' = "raised"
    /\ UNCHANGED << cloudflare_detected, expected_content_detected,
                    firstPassCf, everSignal >>

\* except PlaywrightError as e: the retry branch, or `raise`
SafeQueryFails(o) ==
    IF ShouldRetry(o, safeAttempt)
    THEN Goto("backoff", Op(stats), att) /\ UNCHANGED passVars
    ELSE Finish("raise_error", Op(stats), att) /\ PassRaises

\* safe_query for the current selector of detect_cloudflare_challenge:
\* await page.wait_for_load_state('domcontentloaded', timeout=10000)
SafeQuery ==
    /\ pc = "detect"
    /\ \E o \in PageOutcomes({ "ok", "destroyed", "timeout" }) :
          /\ PageAfter(o, TRUE)
          /\ Stability(FALSE, Crashed(o))
          /\ IF o = "ok"
             THEN Goto("query", Op(stats), att) /\ UNCHANGED passVars
             ELSE SafeQueryFails(o)
    /\ UNCHANGED params
    /\ UNCHANGED << matched_iframes, subVars >>

\* return await page.query_selector(selector), and the detector's loop
\* around safe_query: if not element: continue / return True / return False
SafeQuerySelector ==
    /\ pc = "query"
    /\ \E o \in PageOutcomes({ "ok", "destroyed", "error" }) :
          /\ PageAfter(o, TRUE)
          /\ Stability(FALSE, Crashed(o))
          /\ IF o = "ok"
             THEN IF QuerySelector(IndicatorSelectors(challenge_type)[selIdx])
                  THEN Goto("expected", Op(stats), att) /\ DetectorReturns(TRUE)
                  ELSE IF selIdx < Len(IndicatorSelectors(challenge_type))
                       THEN /\ pc' = "detect"
                            /\ selIdx' = selIdx + 1
                            /\ safeAttempt' = 0
                            /\ stats' = Op(stats)
                            /\ UNCHANGED << attempt, checkbox_click_attempt,
                                            phase, probeSite, outcome, att,
                                            passVars >>
                       ELSE Goto("expected", Op(stats), att)
                            /\ DetectorReturns(FALSE)
             ELSE SafeQueryFails(o)
    /\ UNCHANGED params
    /\ UNCHANGED << matched_iframes, subVars >>

\* await asyncio.sleep(delay); continue (a sleep of safe_query: stats.slept
\* adds up the sleeps of solve_cloudflare_by_click itself)
SafeQuerySleep ==
    /\ pc = "backoff"
    /\ pc' = "detect"
    /\ safeAttempt' = safeAttempt + 1
    /\ Stability(FALSE, FALSE)
    /\ UNCHANGED << attempt, checkbox_click_attempt, phase, probeSite, selIdx,
                    outcome, stats, att >>
    /\ UNCHANGED << params, pageVars, passVars >>
    /\ UNCHANGED << matched_iframes, subVars >>

\* variant: the first pass never ends the call
NoChallengeNever(cf, exp) == FALSE

\* if not cloudflare_detected or expected_content_detected: return True
NoChallenge(cf, exp) == ~cf \/ exp

\* variant: challenge_solved = cloudflare_detected (the `not` is lost)
SolvedWhenDetected(cf, exp) == cf \/ exp

\* challenge_solved = not cloudflare_detected;
\* if challenge_solved or expected_content_detected: return True
Solved(cf, exp) == (~cf) \/ exp

\* the decision that follows a detection pass, at step 1 and at step 5
Decide(exp, st) ==
    LET signal == IF phase = "pre" THEN NoChallenge(cloudflare_detected, exp)
                  ELSE Solved(cloudflare_detected, exp)
    IN  /\ expected_content_detected' = exp
        /\ lastPass' = IF (~cloudflare_detected) \/ exp
                       THEN "signal" ELSE "nosignal"
        /\ everSignal' = (everSignal \/ (~cloudflare_detected) \/ exp)
        /\ UNCHANGED << cloudflare_detected, firstPassCf >>
        /\ IF signal
           THEN IF debug
                THEN EnterProbe(IF phase = "pre" THEN 2 ELSE 4, st, att)
                ELSE Finish("true", st, att)
           ELSE IF phase = "pre"
                THEN Goto("loadstate", st,
                          IF cloudflare_detected /\ ~exp
                          THEN Bump(att, "present") ELSE att)
                ELSE Continue(st, att)

\* detect_expected_content(queryable, expected_content_selector) and the
\* `if` that follows it
ExpectedContent ==
    /\ pc = "expected"
    /\ IF expected_content_selector = NoSelector
       THEN /\ Decide(FALSE, stats)
            /\ UNCHANGED pageVars
            /\ Stability(FALSE, FALSE)
       ELSE \E o \in PageOutcomes({ "ok", "error" }) :
               /\ PageAfter(o, TRUE)
               /\ Stability(FALSE, Crashed(o))
               /\ IF o = "ok"
                  THEN Decide(QuerySelector(expected_content_selector),
                              Op(stats))
                  ELSE Finish("raise_error", Op(stats), att) /\ PassRaises
    /\ UNCHANGED params
    /\ UNCHANGED << matched_iframes, subVars >>

\* step 2: queryable.wait_for_load_state('domcontentloaded', timeout=10000)
\* except PlaywrightTimeoutError / except CrashedError: logged, go on
LoadState ==
    /\ pc = "loadstate"
    /\ \E o \in PageOutcomes({ "ok", "timeout", "error" }) :
          /\ PageAfter(o, TRUE)
          /\ Stability(FALSE, Crashed(o))
          /\ Goto("locate", Op(stats), att)
    /\ UNCHANGED << params, passVars >>
    /\ UNCHANGED << matched_iframes, subVars >>

\* variant: the empty list is not treated as "nothing to click"
NoIframesNever(n) == n < 0

\* if not cf_iframes
NoIframes(n) == n = 0

\* the page crashes while the call is suspended inside the Locator or the
\* Waiter: these catch the error of the operation in flight (shadow_root.py
\* 88, 119; dom_helpers.py 49, 68) and go on, so the call does not see it
PageCrashes ==
    /\ pc \in { "locate", "wait" }
    /\ queryable \notin closed
    /\ queryable < MaxPages
    /\ closed' = closed \cup { queryable }
    /\ Stability(FALSE, TRUE)
    /\ UNCHANGED << params, ctrl, passVars, queryable, dom, observedClosed >>
    /\ UNCHANGED << matched_iframes, subVars >>

\* inside search_shadow_root_iframes, on a live page: an iframe element
\* passed the src filter and matched_iframes.append(cf_iframe) ran; on a
\* closed page every operation of the Locator raises and nothing is added
LocateMatch ==
    /\ pc = "locate"
    /\ queryable \notin closed
    /\ matched_iframes < MaxIframes
    /\ matched_iframes' = matched_iframes + 1
    /\ UNCHANGED << params, ctrl, passVars, pageVars, stable, repeatCall >>
    /\ UNCHANGED subVars

\* step 3 (code: "2."): cf_iframes = await search_shadow_root_iframes(..)
\* returns what it has matched (also after an error inside it);
\* if not cf_iframes: continue
Locate ==
    /\ pc = "locate"
    /\ LET n == matched_iframes
           st == IF n = 0 THEN Bump(Bump(Op(stats), "locate"), "locEmpty")
                 ELSE Bump(Op(stats), "locate")
           at == [ Bump(att, "locate") EXCEPT
                     !.iframes = IF n > 0 THEN 1 ELSE 0 ]
       IN  IF NoIframes(n)
           THEN Continue(st, at)
           ELSE Goto("wait", st, at)
    /\ matched_iframes' = 0
    /\ Stability(FALSE, FALSE)
    /\ UNCHANGED << params, pageVars, passVars >>
    /\ UNCHANGED subVars

\* variant: a missing checkbox is not treated as "not ready"
NoCheckboxNever(found) == FALSE

\* if not checkbox_data
NoCheckbox(found) == ~found

\* variant: the argument is used as it comes
WaiterAttemptsRaw(n) == n

\* if attempts <= 0: attempts = 1
WaiterAttempts(n) == IF n <= 0 THEN 1 ELSE n

\* for attempt in range(attempts), inside get_ready_checkbox
MoreRounds == att.rounds < WaiterAttempts(wait_checkbox_attempts)

\* what one polling round of get_ready_checkbox can find: on a closed page
\* its searches raise and the round ends with no visible checkbox
RoundFinds == IF queryable \in closed THEN { FALSE } ELSE BOOLEAN

\* inside get_ready_checkbox: a polling round that ends with no visible
\* checkbox, after its sleep or in its `except Exception`
WaitRound ==
    /\ pc = "wait"
    /\ MoreRounds
    /\ FALSE \in RoundFinds
    /\ att' = Bump(att, "rounds")
    /\ Stability(FALSE, FALSE)
    /\ UNCHANGED << pc, attempt, checkbox_click_attempt, phase, probeSite,
                    selIdx, safeAttempt, outcome, stats >>
    /\ UNCHANGED << params, pageVars, passVars >>
    /\ UNCHANGED << matched_iframes, subVars >>

\* step 4 (code: "3."): checkbox_data = await get_ready_checkbox(cf_iframes,
\* delay=wait_checkbox_delay, attempts=wait_checkbox_attempts) returns: the
\* pair a round saw visible, or None when the rounds are used up;
\* if not checkbox_data: continue
Wait ==
    /\ pc = "wait"
    /\ \E found \in BOOLEAN :
          /\ IF found THEN MoreRounds /\ TRUE \in RoundFinds
             ELSE ~MoreRounds
          /\ UNCHANGED pageVars
          /\ Stability(FALSE, FALSE)
          /\ LET st == IF found THEN Bump(stats, "wait")
                       ELSE Bump(Bump(stats, "wait"), "waitNone")
                 at == [ Bump(att, "wait") EXCEPT
                           !.pair = IF found THEN 1 ELSE 0,
                           !.rounds = IF found THEN @ + 1 ELSE @ ]
             IN  IF NoCheckbox(found)
                 THEN Continue(st, at)
                 ELSE /\ pc' = "click"
                      /\ checkbox_click_attempt' = 0
                      /\ stats' = st
                      /\ att' = at
                      /\ UNCHANGED << attempt, phase, probeSite, selIdx,
                                      safeAttempt, outcome >>
    /\ UNCHANGED << params, passVars >>
    /\ UNCHANGED << matched_iframes, subVars >>

\* variant: the for-else lacks its `continue` and falls into step 5
ClicksExhaustedFallsThrough ==
    /\ EnterDetect("verify", stats, att)
    /\ Stability(TRUE, FALSE)

\* for ... else: logger.debug('Failed to click checkbox ...'); continue
ClicksExhausted ==
    /\ Continue(stats, att)
    /\ Stability(FALSE, FALSE)

\* variant: the loop runs once more
MoreClicksInclusive(i, n) == i <= n

\* for checkbox_click_attempt in range(checkbox_click_attempts)
MoreClicks(i, n) == i < n

\* step 5 (code: "4."): for checkbox_click_attempt in
\* range(checkbox_click_attempts): try click, break / except: log; else:
\* continue
Click ==
    /\ pc = "click"
    /\ IF MoreClicks(checkbox_click_attempt, checkbox_click_attempts)
       THEN \E o \in PageOutcomes({ "ok", "error" }) :
               /\ PageAfter(o, FALSE)
               /\ IF o = "ok"
                  THEN LET st == Bump(stats, "click")
                           at == [ Bump(Bump(att, "click"), "clickOk")
                                   EXCEPT !.sleptAtClick = st.slept ]
                       IN  IF debug
                           THEN EnterProbe(3, st, at)
                                /\ Stability(FALSE, FALSE)
                           ELSE EnterDetect("verify", st, at)
                                /\ Stability(TRUE, FALSE)
                  ELSE /\ checkbox_click_attempt' = checkbox_click_attempt + 1
                       /\ stats' = Bump(stats, "click")
                       /\ att' = Bump(att, "click")
                       /\ Stability(FALSE, Crashed(o))
                       /\ UNCHANGED << pc, attempt, phase, probeSite, selIdx,
                                       safeAttempt, outcome >>
       ELSE /\ ClicksExhausted
            /\ UNCHANGED pageVars
    /\ UNCHANGED << params, passVars >>
    /\ UNCHANGED << matched_iframes, subVars >>

Next ==
    \/ solve_captcha
    \/ solve_cloudflare_by_click
    \/ CallAgain
    \/ Return
    \/ PageMutates
    \/ set_level
    \/ Loop
    \/ Probe
    \/ ProbeNewPage
    \/ SafeQuery
    \/ SafeQuerySelector
    \/ SafeQuerySleep
    \/ ExpectedContent
    \/ LoadState
    \/ PageCrashes
    \/ LocateMatch
    \/ Locate
    \/ WaitRound
    \/ Wait
    \/ Click

Spec == Init /\ [][Next]_vars

(* ============ detect_cloudflare_challenge / safe_query alone =========== *)

\* every selector of the two lists
IndicatorSet ==
    { CF_INTERSTITIAL_INDICATORS_SELECTORS[i] :
        i \in 1..Len(CF_INTERSTITIAL_INDICATORS_SELECTORS) }
    \cup { CF_TURNSTILE_INDICATORS_SELECTORS[i] :
             i \in 1..Len(CF_TURNSTILE_INDICATORS_SELECTORS) }

\* selectors = CF_TURNSTILE_INDICATORS_SELECTORS if challenge_type ==
\* 'turnstile' else CF_INTERSTITIAL_INDICATORS_SELECTORS
SelectorsFor(lists, ct) ==
    IF ct = "turnstile" THEN lists.turnstile ELSE lists.interstitial

\* one awaited call on the page, appended to the trace
Traced(d, op, res, secs) ==
    [ d EXCEPT !.trace = Append(@, [ op |-> op, sel |-> d.selectors[d.idx],
                                     res |-> res, secs |-> secs ]) ]

\* for selector in selectors: ... / return False
NextSelector(d, i) ==
    IF i <= Len(d.selectors)
    THEN [ d EXCEPT !.pc = "load", !.idx = i, !.attempt = 0 ]
    ELSE [ d EXCEPT !.pc = "done", !.result = "false" ]

\* variant: every failure before the last attempt is retried
SafeQueryExceptAny(d, o) ==
    IF d.attempt < SafeQueryRetries - 1
    THEN [ d EXCEPT !.pc = "backoff" ]
    ELSE [ d EXCEPT !.pc = "done", !.result = "raise" ]

\* except PlaywrightError as e: retry branch or `raise`
SafeQueryExcept(d, o) ==
    IF ShouldRetry(o, d.attempt)
    THEN [ d EXCEPT !.pc = "backoff" ]
    ELSE [ d EXCEPT !.pc = "done", !.result = "raise" ]

\* page.query_selector(selector) on a page holding `page`
QueryIn(page, selector) == selector \in page

\* variant: a found element does not end the loop
DetectorStopsNever(element) == FALSE

\* if not element: continue / return True
DetectorStops(element) == element

\* a caller invokes detect_cloudflare_challenge(queryable, challenge_type)
detect_cloudflare_challenge ==
    /\ detector.pc = "idle"
    /\ \E ct \in ChallengeTypeArgs, page \in SUBSET IndicatorSet :
          detector' =
              NextSelector([ DetectorIdle EXCEPT
                               !.challenge_type = ct,
                               !.page = page,
                               !.selectors = SelectorsFor(cf_selectors, ct) ],
                           1)
    /\ UNCHANGED << solverVars, cf_selectors, waiter, locator, nav,
                    collector >>

\* await page.wait_for_load_state('domcontentloaded', timeout=10000)
SafeQueryLoadState ==
    /\ detector.pc = "load"
    /\ \E o \in { "ok", "destroyed", "timeout", "closed" } :
          LET d == Traced(detector, "load", o, 0)
          IN  detector' = IF o = "ok"
                          THEN [ d EXCEPT !.pc = "query" ]
                          ELSE SafeQueryExcept(d, o)
    /\ UNCHANGED << solverVars, cf_selectors, waiter, locator, nav,
                    collector >>

\* return await page.query_selector(selector), and the detector's use of
\* the returned element
SafeQueryQuery ==
    /\ detector.pc = "query"
    /\ \E o \in { "ok", "destroyed", "closed" } :
          IF o = "ok"
          THEN LET element ==
                       QueryIn(detector.page, detector.selectors[detector.idx])
                   d == Traced(detector, "query",
                               IF element THEN "element" ELSE "none", 0)
               IN  detector' =
                       IF DetectorStops(element)
                       THEN [ d EXCEPT !.pc = "done", !.result = "true" ]
                       ELSE NextSelector(d, d.idx + 1)
          ELSE detector' = SafeQueryExcept(Traced(detector, "query", o, 0), o)
    /\ UNCHANGED << solverVars, cf_selectors, waiter, locator, nav,
                    collector >>

\* await asyncio.sleep(delay); continue
SafeQueryBackoff ==
    /\ detector.pc = "backoff"
    /\ LET d == Traced(detector, "sleep", "ok", SafeQueryDelay)
       IN  detector' =
               IF d.attempt + 1 < SafeQueryRetries
               THEN [ d EXCEPT !.pc = "load", !.attempt = @ + 1 ]
               ELSE NextSelector(d, d.idx + 1)
    /\ UNCHANGED << solverVars, cf_selectors, waiter, locator, nav,
                    collector >>

\* the call has returned or raised; the caller may call again
DetectorReturn ==
    /\ detector.pc = "done"
    /\ detector' = DetectorIdle
    /\ UNCHANGED << solverVars, cf_selectors, waiter, locator, nav,
                    collector >>

NextDetector ==
    \/ detect_cloudflare_challenge
    \/ SafeQueryLoadState
    \/ SafeQueryQuery
    \/ SafeQueryBackoff
    \/ DetectorReturn

SpecDetector == Init /\ [][NextDetector]_vars

(* ======================= get_ready_checkbox alone ====================== *)

\* lists of iframes a caller can pass: frames, and null entries
IframeLists ==
    UNION { [ 1..n -> { "frame", "null" } ] : n \in 0..MaxWaiterIframes }

\* except Exception as e: logger.debug(...), then the next round
RoundExcept(w) ==
    [ w EXCEPT !.pc = "round", !.attempt = @ + 1,
               !.ends = Append(@, "exception") ]

\* variant: the checkboxes are paired with the first iframe of the list
PairsOfFirstIframe(i, n) == [ c \in 1..n |-> << 1, c >> ]

\* [(iframe, iframe_checkbox) for iframe_checkbox in iframe_checkboxes]
PairsOf(i, n) == [ c \in 1..n |-> << i, c >> ]

\* a caller invokes get_ready_checkbox(iframes, delay, attempts)
get_ready_checkbox ==
    /\ waiter.pc = "idle"
    /\ \E iframes \in IframeLists, attempts \in (-1)..MaxWaitAttempts :
          waiter' = [ WaiterIdle EXCEPT !.pc = "round",
                                        !.iframes = iframes,
                                        !.arg_attempts = attempts,
                                        !.attempts = WaiterAttempts(attempts) ]
    /\ UNCHANGED << solverVars, cf_selectors, detector, locator, nav,
                    collector >>

\* for attempt in range(attempts): try: checkboxes = [] ... / after the
\* loop: return None
WaiterRound ==
    /\ waiter.pc = "round"
    /\ waiter' =
          IF waiter.attempt < waiter.attempts
          THEN [ waiter EXCEPT !.pc = "collect", !.i = 1, !.k = 1,
                               !.checkboxes = << >>,
                               !.visible_checkboxes = << >>,
                               !.attached = {}, !.seenVisible = {},
                               !.rounds = @ + 1 ]
          ELSE [ waiter EXCEPT !.pc = "done", !.result = "None" ]
    /\ UNCHANGED << solverVars, cf_selectors, detector, locator, nav,
                    collector >>

\* for iframe in iframes: try: is_detached / search_shadow_root_elements /
\* checkboxes += ... except Exception: log
WaiterCollect ==
    /\ waiter.pc = "collect"
    /\ IF waiter.i <= Len(waiter.iframes)
       THEN IF waiter.iframes[waiter.i] = "null"
            THEN \* None.is_detached(): AttributeError, caught and logged
                 waiter' = [ waiter EXCEPT !.i = @ + 1 ]
            ELSE \E detached \in BOOLEAN, n \in 0..MaxCheckboxes :
                    waiter' =
                        IF detached
                        THEN [ waiter EXCEPT !.i = @ + 1 ]
                        ELSE [ waiter EXCEPT
                                 !.i = @ + 1,
                                 !.attached = @ \cup { waiter.i },
                                 !.checkboxes = @ \o PairsOf(waiter.i, n) ]
       ELSE waiter' = [ waiter EXCEPT !.pc = "filter", !.k = 1 ]
    /\ UNCHANGED << solverVars, cf_selectors, detector, locator, nav,
                    collector >>

\* for iframe, checkbox in checkboxes: if await checkbox.is_visible(): ...
\* if visible_checkboxes: return visible_checkboxes[0]
WaiterVisible ==
    /\ waiter.pc = "filter"
    /\ IF waiter.k <= Len(waiter.checkboxes)
       THEN \E o \in { "visible", "hidden", "error" } :
               waiter' =
                   CASE o = "visible" ->
                          [ waiter EXCEPT
                              !.k = @ + 1,
                              !.visible_checkboxes =
                                  Append(@, waiter.checkboxes[waiter.k]),
                              !.seenVisible =
                                  @ \cup { waiter.checkboxes[waiter.k] },
                              !.everVisible = TRUE ]
                     [] o = "hidden" -> [ waiter EXCEPT !.k = @ + 1 ]
                     [] OTHER -> RoundExcept(waiter)
       ELSE waiter' =
               IF waiter.visible_checkboxes # << >>
               THEN [ waiter EXCEPT !.pc = "done", !.result = "pair",
                                    !.pair = waiter.visible_checkboxes[1],
                                    !.ends = Append(@, "return") ]
               ELSE [ waiter EXCEPT !.pc = "sleep" ]
    /\ UNCHANGED << solverVars, cf_selectors, detector, locator, nav,
                    collector >>

\* await asyncio.sleep(delay), then the next round
WaiterSleep ==
    /\ waiter.pc = "sleep"
    /\ waiter' = [ waiter EXCEPT !.pc = "round", !.attempt = @ + 1,
                                 !.slept = @ + 1,
                                 !.ends = Append(@, "sleep") ]
    /\ UNCHANGED << solverVars, cf_selectors, detector, locator, nav,
                    collector >>

\* the call has returned; the caller may call again
WaiterReturn ==
    /\ waiter.pc = "done"
    /\ waiter' = WaiterIdle
    /\ UNCHANGED << solverVars, cf_selectors, detector, locator, nav,
                    collector >>

NextWaiter ==
    \/ get_ready_checkbox
    \/ WaiterRound
    \/ WaiterCollect
    \/ WaiterVisible
    \/ WaiterSleep
    \/ WaiterReturn

SpecWaiter == Init /\ [][NextWaiter]_vars

(* =================== search_shadow_root_iframes alone ================== *)

\* an iframe element of the shadow DOM: its src does not contain the filter
\* ("other"), or it does and its content frame is attached, detached, or
\* not resolved (content_frame() gives None)
IframeKinds == { "other", "attached", "detached", "null" }

\* the iframe elements of one shadow root, in document order
RootContents ==
    UNION { [ 1..n -> IframeKinds ] : n \in 0..MaxRootIframes }

\* the shadow roots of a document, in the order get_shadow_roots lists them
ShadowDoms ==
    UNION { [ 1..n -> RootContents ] : n \in 0..MaxShadowRoots }

\* shadow => shadow.querySelector('iframe'): the first match of shadow root
\* r, as a list of at most one element
QuerySelectorIn(shadow_roots, r) ==
    IF Len(shadow_roots[r]) > 0 THEN << << r, 1 >> >> ELSE << >>

\* if src_filter in src: cf_iframe = content_frame(); if cf_iframe and
\* cf_iframe.is_detached(): continue; matched_iframes.append(cf_iframe)
Appended(shadow_roots, el) ==
    LET kind == shadow_roots[el[1]][el[2]]
    IN  IF kind \in { "other", "detached" }
        THEN << >>
        ELSE << [ el |-> el, frame |-> kind ] >>

\* a caller invokes search_shadow_root_iframes(queryable, src_filter)
search_shadow_root_iframes ==
    /\ locator.pc = "idle"
    /\ \E shadow_roots \in ShadowDoms :
          locator' = [ LocatorIdle EXCEPT !.pc = "roots",
                                          !.dom = shadow_roots ]
    /\ UNCHANGED << solverVars, cf_selectors, detector, waiter, nav,
                    collector >>

\* shadow_roots = await get_shadow_roots(queryable), inside the try of
\* search_shadow_root_elements
GetShadowRoots ==
    /\ locator.pc = "roots"
    /\ \E ok \in BOOLEAN :
          locator' = IF ok
                     THEN [ locator EXCEPT !.pc = "elements", !.r = 1 ]
                     ELSE [ locator EXCEPT !.pc = "iframes", !.j = 1,
                                           !.failed = "roots" ]
    /\ UNCHANGED << solverVars, cf_selectors, detector, waiter, nav,
                    collector >>

\* for shadow_root in shadow_roots: evaluate_handle(querySelector) ...
\* elements.append(element); except Exception: log; return elements
QueryShadowRoot ==
    /\ locator.pc = "elements"
    /\ IF locator.r <= Len(locator.dom)
       THEN \E ok \in BOOLEAN :
               locator' =
                   IF ok
                   THEN [ locator EXCEPT
                            !.r = @ + 1,
                            !.elements =
                                @ \o QuerySelectorIn(locator.dom, locator.r) ]
                   ELSE [ locator EXCEPT !.pc = "iframes", !.j = 1,
                                         !.failed = "root",
                                         !.failedAt = locator.r ]
       ELSE locator' = [ locator EXCEPT !.pc = "iframes", !.j = 1 ]
    /\ UNCHANGED << solverVars, cf_selectors, detector, waiter, nav,
                    collector >>

\* the except of search_shadow_root_iframes: log, return matched_iframes
IframesExcept(l) ==
    [ l EXCEPT !.pc = "done", !.result = "list",
               !.failed = IF @ = "none" THEN "element" ELSE @,
               !.failedAt = IF l.failed = "none" THEN l.j ELSE @ ]

\* if src_filter in src
SrcMatches(shadow_roots, el) == shadow_roots[el[1]][el[2]] # "other"

\* for iframe_element in iframe_elements:
\*     src_prop = await iframe_element.get_property('src')
ReadIframe ==
    /\ locator.pc = "iframes"
    /\ IF locator.j <= Len(locator.elements)
       THEN \E ok \in BOOLEAN :
               locator' = IF ok
                          THEN [ locator EXCEPT !.pc = "json_value" ]
                          ELSE IframesExcept(locator)
       ELSE locator' = [ locator EXCEPT !.pc = "done", !.result = "list" ]
    /\ UNCHANGED << solverVars, cf_selectors, detector, waiter, nav,
                    collector >>

\* src = await src_prop.json_value(); if src_filter in src: ...
JsonValue ==
    /\ locator.pc = "json_value"
    /\ \E ok \in BOOLEAN :
          locator' =
              IF ~ok THEN IframesExcept(locator)
              ELSE IF SrcMatches(locator.dom, locator.elements[locator.j])
                   THEN [ locator EXCEPT !.pc = "content_frame" ]
                   ELSE [ locator EXCEPT !.pc = "iframes", !.j = @ + 1 ]
    /\ UNCHANGED << solverVars, cf_selectors, detector, waiter, nav,
                    collector >>

\* cf_iframe = await iframe_element.content_frame(); detached: continue;
\* matched_iframes.append(cf_iframe)
ContentFrame ==
    /\ locator.pc = "content_frame"
    /\ \E ok \in BOOLEAN :
          locator' =
              IF ok
              THEN [ locator EXCEPT
                       !.pc = "iframes",
                       !.j = @ + 1,
                       !.matched_iframes =
                           @ \o Appended(locator.dom,
                                         locator.elements[locator.j]) ]
              ELSE IframesExcept(locator)
    /\ UNCHANGED << solverVars, cf_selectors, detector, waiter, nav,
                    collector >>

\* the call has returned; the caller may call again
LocatorReturn ==
    /\ locator.pc = "done"
    /\ locator' = LocatorIdle
    /\ UNCHANGED << solverVars, cf_selectors, detector, waiter, nav,
                    collector >>

NextLocator ==
    \/ search_shadow_root_iframes
    \/ GetShadowRoots
    \/ QueryShadowRoot
    \/ ReadIframe
    \/ JsonValue
    \/ ContentFrame
    \/ LocatorReturn

SpecLocator == Init /\ [][NextLocator]_vars

(* ============================ safe_goto alone ========================== *)

\* the two nested for loops, entered at (attempt a, wait_until index i):
\* the next goto, or after the loops `raise last_exc` (a TypeError when
\* last_exc is still None; last_exc = k > 0 is the error of the k-th goto)
NavAt(n, a, i) ==
    IF a > n.max_retries \/ n.wait_untils = 0
    THEN [ n EXCEPT !.pc = "done",
                    !.result = IF n.last_exc = 0 THEN "TypeError"
                               ELSE "raise_last" ]
    ELSE IF i > n.wait_untils
         THEN IF a + 1 > n.max_retries
              THEN [ n EXCEPT !.pc = "done",
                              !.result = IF n.last_exc = 0 THEN "TypeError"
                                         ELSE "raise_last" ]
              ELSE [ n EXCEPT !.pc = "goto", !.attempt = a + 1, !.w = 1 ]
         ELSE [ n EXCEPT !.pc = "goto", !.attempt = a, !.w = i ]

\* a caller invokes safe_goto(page, url, browser_context, max_retries,
\* timeout, wait_untils)
safe_goto ==
    /\ nav.pc = "idle"
    /\ \E retries \in (-1)..MaxGotoRetries, untils \in 0..MaxWaitUntils :
          nav' = NavAt([ NavIdle EXCEPT !.max_retries = retries,
                                        !.wait_untils = untils ], 1, 1)
    /\ UNCHANGED << solverVars, cf_selectors, detector, waiter, locator,
                    collector >>

\* response = await page.goto(url, timeout=timeout, wait_until=wait_until)
\* return page / except TargetClosedError / except Exception as e
PageGoto ==
    /\ nav.pc = "goto"
    /\ \E o \in { "ok", "closed", "error" } :
          LET n == [ nav EXCEPT !.gotos = @ + 1, !.lastCall = o ]
          IN  nav' =
                  CASE o = "ok" ->
                         [ n EXCEPT !.pc = "done", !.result = "page",
                                    !.lastOk = n.page ]
                    [] o = "closed" -> [ n EXCEPT !.pc = "newpage" ]
                    [] OTHER ->
                         NavAt([ n EXCEPT !.last_exc = n.gotos ],
                               n.attempt, n.w + 1)
    /\ UNCHANGED << solverVars, cf_selectors, detector, waiter, locator,
                    collector >>

\* page = await browser_context.new_page() / raise create_exc
NewPage ==
    /\ nav.pc = "newpage"
    /\ \E created \in BOOLEAN :
          nav' =
              IF created
              THEN NavAt([ nav EXCEPT !.page = @ + 1, !.newpages = @ + 1 ],
                         nav.attempt, nav.w + 1)
              ELSE [ nav EXCEPT !.pc = "done", !.result = "raise_create" ]
    /\ UNCHANGED << solverVars, cf_selectors, detector, waiter, locator,
                    collector >>

\* the call has returned or raised; the caller may call again
GotoReturn ==
    /\ nav.pc = "done"
    /\ nav' = NavIdle
    /\ UNCHANGED << solverVars, cf_selectors, detector, waiter, locator,
                    collector >>

NextGoto ==
    \/ safe_goto
    \/ PageGoto
    \/ NewPage
    \/ GotoReturn

SpecGoto == Init /\ [][NextGoto]_vars

(* ========================= get_shadow_roots alone ====================== *)

\* the documents: elements 1..n in document order; parent[e] is 0 (the
\* document) or an earlier element; via[e] says whether e is a child of
\* its parent in the ordinary tree ("light") or inside its parent's shadow
\* root ("shadow"); hosts are the elements that have a shadow root
Documents ==
    UNION { { [ parent |-> p, via |-> v, hosts |-> h ] :
                p \in { f \in [ 1..n -> 0..(n - 1) ] :
                            \A e \in 1..n : f[e] < e },
                v \in [ 1..n -> { "light", "shadow" } ],
                h \in SUBSET (1..n) } :
            n \in 0..MaxElements }

\* a document is well formed
WellFormed(doc) ==
    \A e \in DOMAIN doc.parent :
        /\ doc.parent[e] < e
        /\ doc.via[e] = "shadow" => doc.parent[e] \in doc.hosts

\* the children of p of one kind, in document order
RECURSIVE ChildrenFrom(_, _, _, _)
ChildrenFrom(doc, p, kind, e) ==
    IF e > Len(doc.parent) THEN << >>
    ELSE (IF doc.parent[e] = p /\ doc.via[e] = kind THEN << e >> ELSE << >>)
         \o ChildrenFrom(doc, p, kind, e + 1)

\* node.querySelectorAll("*") below the given children: the elements of
\* the ordinary tree under them, in document order, shadow trees left out
RECURSIVE Descend(_, _)
Descend(doc, children) ==
    IF children = << >> THEN << >>
    ELSE << Head(children) >>
         \o Descend(doc, ChildrenFrom(doc, Head(children), "light", 1))
         \o Descend(doc, Tail(children))

\* function collectShadowRoots(node) for a host, and its for loop over
\* the elements `els` of a scope: those with a shadow root are collected
RECURSIVE CollectHost(_, _), CollectEach(_, _)
CollectHost(doc, host) ==
    << host >>
    \o CollectEach(doc, Descend(doc, ChildrenFrom(doc, host, "shadow", 1)))

CollectEach(doc, els) ==
    IF els = << >> THEN << >>
    ELSE (IF Head(els) \in doc.hosts THEN CollectHost(doc, Head(els))
          ELSE << >>)
         \o CollectEach(doc, Tail(els))

\* collectShadowRoots(document); return roots. The script takes no
\* argument, so the queryable it is evaluated on plays no part
CollectShadowRoots(doc, given) ==
    CollectEach(doc, Descend(doc, ChildrenFrom(doc, 0, "light", 1)))

\* a caller invokes get_shadow_roots(queryable): queryable 0 is the Page or
\* Frame of the document, e > 0 the ElementHandle of element e
get_shadow_roots ==
    /\ collector.pc = "idle"
    /\ \E doc \in { d \in Documents : WellFormed(d) } :
       \E q \in 0..Len(doc.parent) :
          collector' = [ CollectorIdle EXCEPT !.pc = "evaluate",
                                              !.parent = doc.parent,
                                              !.via = doc.via,
                                              !.hosts = doc.hosts,
                                              !.queryable = q ]
    /\ UNCHANGED << solverVars, cf_selectors, detector, waiter, locator, nav >>

\* handle = await queryable.evaluate_handle(js)
EvaluateHandle ==
    /\ collector.pc = "evaluate"
    /\ \E ok \in BOOLEAN :
          collector' =
              IF ok
              THEN [ collector EXCEPT
                       !.pc = "properties",
                       !.handle = CollectShadowRoots(collector,
                                                     collector.queryable) ]
              ELSE [ collector EXCEPT !.pc = "done", !.result = "raise" ]
    /\ UNCHANGED << solverVars, cf_selectors, detector, waiter, locator, nav >>

\* properties = await handle.get_properties(); for prop_handle in
\* properties.values(): element = prop_handle.as_element(); if element:
\* shadow_roots.append(element); return shadow_roots
GetProperties ==
    /\ collector.pc = "properties"
    /\ \E ok \in BOOLEAN :
          collector' =
              IF ok
              THEN [ collector EXCEPT !.pc = "done", !.result = "list",
                                      !.shadow_roots = collector.handle ]
              ELSE [ collector EXCEPT !.pc = "done", !.result = "raise" ]
    /\ UNCHANGED << solverVars, cf_selectors, detector, waiter, locator, nav >>

\* the call has returned or raised; the caller may call again
CollectorReturn ==
    /\ collector.pc = "done"
    /\ collector' = CollectorIdle
    /\ UNCHANGED << solverVars, cf_selectors, detector, waiter, locator, nav >>

NextCollector ==
    \/ get_shadow_roots
    \/ EvaluateHandle
    \/ GetProperties
    \/ CollectorReturn

SpecCollector == Init /\ [][NextCollector]_vars

(* ============================== claims ================================= *)

Max0(n) == IF n < 0 THEN 0 ELSE n

Done == pc = "done"

\* the body of solve_cloudflare_by_click ran and ended (the call was not
\* turned down by solve_captcha's argument check or for a missing
\* browser_context)
SolverDone == Done /\ outcome \notin { "ValueError", "TypeError" }

NoCollaboratorCalls ==
    stats.locate = 0 /\ stats.wait = 0 /\ stats.click = 0

\* C1: the call returns true only if the last detection pass it finished
\* found the indicator absent or the expected content present, and it
\* returns false only after all solve_attempts outer attempts ran and no
\* finished detection pass of the call saw either signal (both challenge
\* types).
C1_ReturnValueMeaning ==
    /\ (Done /\ outcome = "true") => lastPass = "signal"
    /\ (Done /\ outcome = "false") =>
          (attempt = Max0(solve_attempts) /\ ~everSignal)

\* true on the second outer attempt, after a verification pass (turnstile)
C1_Witness ==
    /\ Done
    /\ outcome = "true"
    /\ challenge_type = "turnstile"
    /\ phase = "verify"
    /\ attempt = 1

\* C2 (as claimed): the only exception that leaves the solver is the
\* failure to create a replacement page; every other failure ends in a
\* boolean. (A call turned down for its arguments, by solve_captcha's check
\* or for a missing browser_context, never started the solver.)
C2_OnlyCreateFailureRaises ==
    (Done /\ outcome \notin { "true", "false" }) =>
       outcome \in { "raise_create", "ValueError", "TypeError" }

\* C3 (as claimed): for every challenge type, when the first detection
\* pass finds no indicator and no expected-content selector is configured,
\* the call returns true after exactly one detection pass and no Locator,
\* Waiter or click call; a call repeated in the same page state finds no
\* indicator on its first pass again, and so does the same.
C3_AbsentReturnsTrue ==
    /\ (Done /\ firstPassCf = "absent"
             /\ expected_content_selector = NoSelector) =>
          (outcome = "true" /\ stats.detect = 1 /\ NoCollaboratorCalls)
    /\ (repeatCall /\ expected_content_selector = NoSelector
                   /\ firstPassCf # "none") => firstPassCf = "absent"

\* C4 (as claimed): when the expected content matched on a detection pass,
\* indicator present or not, the call returns true on that pass, and no
\* Locator, Waiter or click call stands between the match and the return:
\* when the pass is the first of its attempt, that attempt made none.
C4_ExpectedReturnsTrue ==
    (Done /\ expected_content_detected) =>
       /\ outcome = "true"
       /\ phase = "pre" =>
             (att.locate = 0 /\ att.wait = 0 /\ att.click = 0)

\* C5: when the Locator returned zero iframes on every one of the
\* solve_attempts outer attempts, the call returns false after exactly
\* solve_attempts detection passes; as long as the Locator has only
\* returned empty lists, neither the Waiter nor click has been called.
C5_NoIframesGivesFalse ==
    /\ (SolverDone /\ stats.locEmpty = solve_attempts) =>
          (outcome = "false" /\ stats.detect = solve_attempts
                             /\ stats.wait = 0 /\ stats.click = 0)
    /\ stats.locEmpty = stats.locate => (stats.wait = 0 /\ stats.click = 0)

\* two attempts, the Locator empty on both
C5_Witness ==
    /\ Done
    /\ outcome = "false"
    /\ solve_attempts = 2
    /\ stats.locEmpty = 2
    /\ stats.detect = 2

\* C6: when the Waiter returned none on every one of the solve_attempts
\* outer attempts, the call returns false; as long as the Waiter has only
\* returned none, click has not been called.
C6_NoCheckboxGivesFalse ==
    /\ (SolverDone /\ stats.waitNone = solve_attempts) =>
          (outcome = "false" /\ stats.click = 0)
    /\ stats.waitNone = stats.wait => stats.click = 0

\* two attempts, the Waiter none on both
C6_Witness ==
    /\ Done
    /\ outcome = "false"
    /\ solve_attempts = 2
    /\ stats.waitNone = 2

\* every click sub-attempt of the current outer attempt threw
AllClicksThrew ==
    /\ pc = "click"
    /\ checkbox_click_attempt >= checkbox_click_attempts
    /\ att.clickOk = 0

\* C7: an outer attempt whose click sub-attempts all threw runs no
\* verification pass (a verification pass exists only after a click that
\* returned), and the next step of the call goes to the head of the outer
\* loop with the attempt counted and no detection pass added; from the loop
\* head the call starts the next attempt, or returns false when the
\* abandoned attempt was the last.
C7_AllClicksThrowAbandons ==
    /\ [](att.verify > 0 => att.clickOk > 0)
    /\ [][ /\ (AllClicksThrew /\ pc' # pc) =>
                (/\ pc' = "loop"
                 /\ attempt' = attempt + 1
                 /\ stats'.detect = stats.detect
                 /\ att'.verify = 0)
           /\ (pc = "loop" /\ attempt >= solve_attempts /\ pc' # pc) =>
                (pc' = "done" /\ outcome' = "false")
           /\ (pc = "loop" /\ attempt < solve_attempts /\ pc' # pc) =>
                (pc' \in { "probe", "detect" } /\ attempt' = attempt
                                                /\ att'.verify = 0)
         ]_vars

\* the first attempt was abandoned after two throwing clicks
C7_Witness ==
    /\ pc = "loop"
    /\ attempt = 1
    /\ checkbox_click_attempts = 2
    /\ att.click = 2
    /\ att.clickOk = 0
    /\ att.verify = 0

\* C8 (as claimed): after the call saw target-closed on its queryable, at
\* any step, it goes on with a new page: the queryable it works with is
\* never one it saw closed, and no operation is issued against such a page.
C8_NoUseOfStalePage ==
    /\ stats.stale = 0
    /\ pc \notin { "idle", "done", "newpage" } =>
          queryable \notin observedClosed

\* C9: when new_page() fails after a crash, the call is over at once with
\* the creation error: no boolean, and no operation after the failure.
C9_CreateFailurePropagates ==
    stats.newpageFail > 0 =>
       /\ Done
       /\ outcome = "raise_create"
       /\ stats.newpageFail = 1
       /\ stats.afterCreateFail = 0

\* the creation failed at the post-click probe
C9_Witness ==
    /\ Done
    /\ outcome = "raise_create"
    /\ stats.newpageFail = 1
    /\ probeSite = 3
    /\ att.clickOk = 1

\* C10 (as claimed): a call whose challenge_type is not interstitial or
\* turnstile (empty included) is rejected with an error before anything is
\* done, on both entry points.
C10_BadChallengeTypeRejected ==
    (pc # "idle" /\ arg_challenge_type \notin SupportedChallengeTypes) =>
       (Done /\ outcome \in { "ValueError", "TypeError" }
             /\ stats = ZeroStats)

\* the first outer attempt clicked, and the verification detector then
\* found the indicator gone
FirstAttemptCleared ==
    /\ attempt = 0
    /\ att.clickOk = 1
    /\ phase = "verify"
    /\ ~cloudflare_detected

\* C11 (as claimed): an attempt that reaches verification runs the detector exactly
\* twice, an abandoned one exactly once; and when the first attempt got an
\* iframe and a ready checkbox (in whichever round of the Waiter), clicked
\* and the indicator is then gone, the call returns true after exactly 2
\* detection passes.
C11_TwoPassesThenTrue ==
    /\ att.verify > 0 => att.detect = 2
    /\ (pc = "loop" /\ attempt > 0 /\ att.clickOk = 0) => att.detect = 1
    /\ (Done /\ FirstAttemptCleared) => (outcome = "true" /\ stats.detect = 2)

\* every outer attempt saw the indicator and got no iframe from the Locator
LocatorAlwaysEmpty ==
    /\ SolverDone
    /\ outcome = "false"
    /\ solve_attempts >= 1
    /\ stats.detect = solve_attempts
    /\ stats.locEmpty = solve_attempts

\* C12 (as claimed): when the indicator is present on every attempt and the
\* Locator always returns empty, the total time slept before returning
\* false is exactly (solve_attempts - 1) * attempt_delay.
C12_SleepIsDelaysOnly ==
    LocatorAlwaysEmpty => stats.slept = (solve_attempts - 1) * attempt_delay

\* C12 (amended): in that case the sleeps of solve_cloudflare_by_click
\* itself add up to (solve_attempts - 1) * attempt_delay plus the 2 seconds
\* slept before `return False`.
C12_SleepIsDelaysPlusFinal ==
    LocatorAlwaysEmpty =>
        stats.slept = (solve_attempts - 1) * attempt_delay + FinalSleep

\* two attempts with an empty Locator: one delay and the final sleep
C12_Witness ==
    /\ LocatorAlwaysEmpty
    /\ solve_attempts = 2
    /\ stats.locate = 2
    /\ stats.slept = attempt_delay + FinalSleep

\* C13: after a successful click the solver sleeps solve_click_delay
\* seconds before the verification detection runs.
C13_ClickDelayBeforeVerify ==
    att.verify > 0 => stats.slept - att.sleptAtClick >= solve_click_delay

(* ------------------------- claims: the detector ------------------------ *)

\* indices of the trace entries of operation `op` on selector `s`
Entries(op, s) ==
    { i \in 1..Len(detector.trace) :
        detector.trace[i].op = op /\ detector.trace[i].sel = s }

\* the try of safe_query (1, 2, 3) in which trace entry i happened
TryOf(i) ==
    Cardinality({ j \in Entries("load", detector.trace[i].sel) : j <= i })

\* C14: safe_query retries only the failure "Execution context was
\* destroyed", after a back-off sleep; every query (the first and each
\* re-query) directly follows a successful wait-for-load-state on the same
\* selector; a selector is queried at most 3 times; a destroyed context on
\* the last try and every other failure end the call with that exception
\* at once.
C14_SafeQueryRetryPolicy ==
    LET T == detector.trace
        N == Len(detector.trace)
    IN  /\ \A i \in 1..N :
              /\ T[i].op = "query" =>
                     /\ i > 1
                     /\ T[i - 1].op = "load"
                     /\ T[i - 1].res = "ok"
                     /\ T[i - 1].sel = T[i].sel
              /\ T[i].op = "sleep" =>
                     /\ i > 1
                     /\ T[i - 1].res = "destroyed"
                     /\ T[i].secs = SafeQueryDelay
                     /\ i < N => (T[i + 1].op = "load"
                                  /\ T[i + 1].sel = T[i].sel)
              /\ T[i].res \in { "timeout", "closed" } =>
                     /\ i = N
                     /\ detector.pc = "done"
                     /\ detector.result = "raise"
              /\ (T[i].res = "destroyed" /\ TryOf(i) < SafeQueryRetries) =>
                     IF i = N THEN detector.pc = "backoff"
                     ELSE T[i + 1].op = "sleep"
              /\ (T[i].res = "destroyed" /\ TryOf(i) >= SafeQueryRetries) =>
                     /\ i = N
                     /\ detector.pc = "done"
                     /\ detector.result = "raise"
        /\ \A s \in IndicatorSet :
              /\ Cardinality(Entries("query", s)) <= SafeQueryRetries
              /\ Cardinality(Entries("load", s)) <= SafeQueryRetries

\* the third query of a selector succeeds after two destroyed contexts
C14_Witness ==
    /\ detector.pc = "done"
    /\ detector.result = "true"
    /\ \E s \in IndicatorSet :
          /\ Cardinality(Entries("query", s)) = SafeQueryRetries
          /\ Cardinality(Entries("sleep", s)) = SafeQueryRetries - 1

\* position of selector s in the list of the call
PosOf(s) ==
    CHOOSE k \in 1..Len(detector.selectors) : detector.selectors[k] = s

\* C15: detect_cloudflare_challenge returns true iff a selector of the
\* fixed list of the challenge type resolves to an element; it queries the
\* selectors in list order, makes no query after the first hit, returns
\* false only after every selector of the list was queried without a hit,
\* and the lists are never modified.
C15_DetectorShortCircuits ==
    LET T == detector.trace
        N == Len(detector.trace)
        fixed == SelectorsFor(SelectorLists, detector.challenge_type)
        hits == { i \in 1..N : T[i].res = "element" }
    IN  /\ cf_selectors = SelectorLists
        /\ detector.pc # "idle" => detector.selectors = fixed
        /\ detector.result = "true" <=> hits # {}
        /\ detector.result = "true" =>
              \E k \in 1..Len(fixed) : fixed[k] \in detector.page
        /\ detector.result = "false" =>
              /\ \A k \in 1..Len(fixed) :
                    /\ fixed[k] \notin detector.page
                    /\ \E i \in Entries("query", fixed[k]) : T[i].res = "none"
        /\ \A i \in hits : i = N /\ detector.pc = "done"
        /\ \A i \in 1..N :
              /\ \E k \in 1..Len(fixed) : T[i].sel = fixed[k]
              /\ IF i = 1 THEN PosOf(T[i].sel) = 1
                 ELSE \/ PosOf(T[i].sel) = PosOf(T[i - 1].sel)
                      \/ /\ PosOf(T[i].sel) = PosOf(T[i - 1].sel) + 1
                         /\ T[i - 1].res = "none"

\* the second turnstile selector hits after the first one missed
C15_Witness ==
    /\ detector.pc = "done"
    /\ detector.result = "true"
    /\ detector.challenge_type = "turnstile"
    /\ Len(detector.trace) = 4
    /\ detector.trace[2].res = "none"
    /\ detector.trace[4].sel = CF_TURNSTILE_INDICATORS_SELECTORS[2]

(* -------------------------- claims: the waiter ------------------------- *)

\* C16: get_ready_checkbox never raises: it ends with a (frame, checkbox)
\* pair or with None; when no checkbox ever reported itself visible it
\* returns None, and None is returned after exactly max(1, attempts)
\* polling rounds, also for attempts <= 0.
C16_WaiterNeverRaises ==
    /\ waiter.result \in { "none", "pair", "None" }
    /\ waiter.pc = "done" <=> waiter.result # "none"
    /\ waiter.result = "pair" =>
          /\ waiter.everVisible
          /\ Len(waiter.pair) = 2
          /\ waiter.rounds <= Max0(waiter.arg_attempts - 1) + 1
    /\ (waiter.pc = "done" /\ ~waiter.everVisible) =>
          waiter.result = "None"
    /\ waiter.result = "None" =>
          /\ waiter.rounds = Max0(waiter.arg_attempts - 1) + 1
          /\ waiter.rounds >= 1

\* attempts = 0: one round, which ends with an exception of is_visible,
\* and None
C16_Witness ==
    /\ waiter.pc = "done"
    /\ waiter.result = "None"
    /\ waiter.arg_attempts = 0
    /\ waiter.rounds = 1
    /\ waiter.ends = << "exception" >>

(* ------------------------- claims: the locator ------------------------- *)

\* C17: every entry of the list search_shadow_root_iframes returns is a
\* resolved content frame that reported itself attached: no detached frame
\* and no None.
C17_OnlyAttachedFrames ==
    \A i \in 1..Len(locator.matched_iframes) :
        locator.matched_iframes[i].frame = "attached"

\* the elements search_shadow_root_elements takes from the shadow roots
\* other than a failing one
TakenFromOtherRoots ==
    { QuerySelectorIn(locator.dom, r)[1] :
        r \in { q \in 1..Len(locator.dom) :
                  /\ Len(locator.dom[q]) > 0
                  /\ ~(locator.failed = "root" /\ locator.failedAt = q) } }

\* the entries of a sequence, as a set
Range(s) == { s[i] : i \in 1..Len(s) }

\* C18: an exception while one shadow root or one iframe is processed
\* skips only that branch: the functions never raise, and what the shadow
\* roots and iframes before and after the failing one yield is still
\* returned.
C18_FailureSkipsOneBranch ==
    /\ locator.result \in { "none", "list" }
    /\ (locator.pc = "done" /\ locator.failed \in { "root", "element" }) =>
          /\ TakenFromOtherRoots \subseteq Range(locator.elements)
          /\ \A j \in 1..Len(locator.elements) :
                ~(locator.failed = "element" /\ locator.failedAt = j) =>
                    Range(Appended(locator.dom, locator.elements[j]))
                        \subseteq Range(locator.matched_iframes)

\* C19: without any failure, search_shadow_root_iframes returns the content
\* frame of every attached iframe of any shadow root whose src contains the
\* filter, and of no other iframe, also when one shadow root holds two or
\* more iframes.
C19_EveryMatchingIframe ==
    (locator.pc = "done" /\ locator.failed = "none") =>
        { locator.matched_iframes[i].el :
            i \in 1..Len(locator.matched_iframes) }
        = { << r, c >> \in (1..MaxShadowRoots) \X (1..MaxRootIframes) :
              /\ r <= Len(locator.dom)
              /\ c <= Len(locator.dom[r])
              /\ locator.dom[r][c] = "attached" }

(* -------------------------- claims: safe_goto -------------------------- *)

\* C20: one invocation of safe_goto issues at most max_retries goto calls,
\* whatever each call's outcome.
C20_AtMostMaxRetriesGotos ==
    nav.gotos <= Max0(nav.max_retries)

\* C21: a pair returned by get_ready_checkbox was collected in the round in
\* which it is returned, from an iframe that reported itself attached in
\* that round, its checkbox reported itself visible in that round, and no
\* pair collected before it in that round reported itself visible.
C21_ReturnedPairIsFresh ==
    waiter.result = "pair" =>
        \E k \in 1..Len(waiter.checkboxes) :
            /\ waiter.checkboxes[k] = waiter.pair
            /\ waiter.pair[1] \in waiter.attached
            /\ waiter.iframes[waiter.pair[1]] = "frame"
            /\ waiter.pair \in waiter.seenVisible
            /\ \A h \in 1..(k - 1) :
                  waiter.checkboxes[h] \notin waiter.seenVisible
            /\ waiter.ends[Len(waiter.ends)] = "return"
            /\ Len(waiter.ends) = waiter.rounds

\* the pair comes from the second round and the second iframe, after a
\* hidden checkbox of the first iframe
C21_Witness ==
    /\ waiter.result = "pair"
    /\ waiter.rounds = 2
    /\ waiter.pair[1] = 2
    /\ waiter.checkboxes[1][1] = 1
    /\ waiter.attached = { 1, 2 }

\* C22: a round that ends with an exception is handled like a round that
\* found no visible checkbox: the call is not aborted, the remaining rounds
\* run, and delay is slept before the next round.
C22_ExceptionRoundSleeps ==
    /\ waiter.result \in { "none", "pair", "None" }
    /\ waiter.result = "None" => waiter.rounds = waiter.attempts
    /\ waiter.slept =
          Cardinality({ i \in 1..Len(waiter.ends) :
                          waiter.ends[i] \in { "sleep", "exception" } })

\* C29: a round in which a collected checkbox of an attached iframe
\* reported itself visible returns a visible pair, whatever raises in the
\* same round.
C29_VisibleCheckboxIsReturned ==
    (waiter.pc \in { "round", "sleep", "done" } /\ waiter.seenVisible # {})
        => waiter.result = "pair"

(* ----------------------- claims: order and budget ---------------------- *)

\* C23: within one outer attempt the steps run in the order detect,
\* locate, wait, click, verify: the Locator is called only after a
\* detection pass of the attempt reported the challenge present and the
\* expected content absent, the Waiter only after the Locator returned a
\* non-empty list, click only after the Waiter returned a pair, and the
\* verification only after a click call returned without error.
C23_StepsInOrder ==
    /\ (pc \in { "loadstate", "locate" } \/ att.locate > 0) =>
          (att.detect >= 1 /\ att.present = 1)
    /\ att.present = 1 => att.detect >= 1
    /\ (pc = "wait" \/ att.wait > 0) =>
          (att.locate = 1 /\ att.iframes = 1)
    /\ (pc = "click" \/ att.click > 0) => (att.wait = 1 /\ att.pair = 1)
    /\ att.verify > 0 => (att.clickOk = 1 /\ att.click >= 1)
    /\ att.locate <= 1 /\ att.wait <= 1 /\ att.verify <= 1
    /\ (phase = "pre" /\ pc \in { "detect", "query", "backoff",
                                   "expected" }) =>
          (att.locate = 0 /\ att.wait = 0 /\ att.click = 0)

\* the second attempt reached its verification after one failed and one
\* successful click
C23_Witness ==
    /\ pc = "detect"
    /\ phase = "verify"
    /\ attempt = 1
    /\ att.detect = 2
    /\ att.click = 2
    /\ att.clickOk = 1
    /\ att.pair = 1

\* the longer of the two indicator lists
MostSelectors ==
    IF Len(CF_TURNSTILE_INDICATORS_SELECTORS)
          > Len(CF_INTERSTITIAL_INDICATORS_SELECTORS)
    THEN Len(CF_TURNSTILE_INDICATORS_SELECTORS)
    ELSE Len(CF_INTERSTITIAL_INDICATORS_SELECTORS)

\* the most steps of safe_query for one selector: SafeQueryRetries tries of
\* a load-state wait and a query, with a back-off sleep between two tries
SelectorSteps == 3 * SafeQueryRetries - 1

\* the most steps of one detection pass
PassSteps == SelectorSteps * MostSelectors

\* steps the detector can still take in the current pass
DetectorLeft ==
    (MostSelectors - selIdx) * SelectorSteps
    + 3 * (SafeQueryRetries - safeAttempt)
    - (CASE pc = "detect" -> 1 [] pc = "query" -> 2 [] OTHER -> 3)

InDetector == pc \in { "detect", "query", "backoff" }

\* steps the current outer attempt can still take, from its position
AttemptLeft ==
    LET c == Max0(checkbox_click_attempts)
        d == PassSteps
        r == WaiterAttempts(wait_checkbox_attempts)
    IN  CASE pc = "probe" /\ probeSite = 1 -> 2 * d + c + r + 15
          [] pc = "newpage" /\ probeSite = 1 -> 2 * d + c + r + 14
          [] InDetector /\ phase = "pre" -> d + c + r + 13 + DetectorLeft
          [] pc = "expected" /\ phase = "pre" -> d + c + r + 12
          [] pc = "loadstate" -> d + c + r + 11
          [] pc = "locate" -> d + c + r + 10
          [] pc = "wait" -> d + c + 9 + Max0(r - att.rounds)
          [] pc = "click" -> d + 8 + Max0(c - checkbox_click_attempt)
          [] pc = "probe" /\ probeSite = 3 -> d + 7
          [] pc = "newpage" /\ probeSite = 3 -> d + 6
          [] InDetector /\ phase = "verify" -> 5 + DetectorLeft
          [] pc = "expected" /\ phase = "verify" -> 4
          [] pc = "probe" -> 2
          [] OTHER -> 1

\* a bound on the steps the call can still take: 0 when it has ended
Rank ==
    LET c == Max0(checkbox_click_attempts)
        d == PassSteps
        r == WaiterAttempts(wait_checkbox_attempts)
        w == 2 * d + c + r + 16
    IN  CASE pc \in { "idle", "done" } -> 0
          [] pc = "loop" -> Max0(solve_attempts - attempt) * w + 1
          [] OTHER -> Max0(solve_attempts - attempt - 1) * w + 1 + AttemptLeft

\* a step while the call runs that is not a step of the call: the page
\* changes its document or crashes under it, another task sets the logger's
\* level, or the Locator goes on inside its call
EnvironmentStep ==
    /\ ctrl' = ctrl
    /\ \/ dom' # dom
       \/ debug' # debug
       \/ closed' # closed
       \/ matched_iframes' # matched_iframes

\* a step of the call itself
SolverStep == pc \notin { "idle", "done" } /\ ~EnvironmentStep

\* C24: the call terminates when every collaborator call returns or
\* raises: each of its steps, the polling rounds of the Waiter included,
\* lowers a bound on the steps that remain; it runs at most solve_attempts
\* outer attempts, each with at most one Locator call, one Waiter call of
\* at most max(1, wait_checkbox_attempts) rounds and at most
\* checkbox_click_attempts click calls; and after the last unsuccessful
\* attempt it returns false.
C24_BoundedRetries ==
    /\ [](/\ Rank \in Nat
          /\ attempt <= Max0(solve_attempts)
          /\ stats.locate <= Max0(solve_attempts)
          /\ stats.wait <= Max0(solve_attempts)
          /\ stats.click
                <= Max0(solve_attempts) * Max0(checkbox_click_attempts)
          /\ att.locate <= 1
          /\ att.wait <= 1
          /\ att.rounds <= (IF wait_checkbox_attempts > 1
                            THEN wait_checkbox_attempts ELSE 1)
          /\ att.click <= Max0(checkbox_click_attempts)
          /\ (pc = "loop" /\ attempt > 0) => outcome = "none")
    /\ [][ /\ SolverStep => Rank' < Rank
           /\ EnvironmentStep => Rank' = Rank
           /\ (pc = "loop" /\ attempt >= solve_attempts /\ SolverStep) =>
                (pc' = "done" /\ outcome' = "false")
         ]_vars

\* false after two full attempts: two Locator calls, two Waiter calls, the
\* last of which found its pair in the second of its two rounds, and four
\* click calls
C24_Witness ==
    /\ Done
    /\ outcome = "false"
    /\ solve_attempts = 2
    /\ attempt = 2
    /\ wait_checkbox_attempts = 2
    /\ att.rounds = 2
    /\ stats.locate = 2
    /\ stats.wait = 2
    /\ stats.click = 4

\* C25: in one outer attempt click is called at most
\* checkbox_click_attempts times with no sleep between the calls, and not
\* again after the first call that returns without error; with
\* checkbox_click_attempts <= 0 no click is issued and the attempt is
\* abandoned without verification.
C25_ClickBudget ==
    /\ att.click <= Max0(checkbox_click_attempts)
    /\ att.clickOk <= 1
    /\ att.clickOk = 1 => (pc # "click" /\ att.sleptAtClick <= stats.slept)
    /\ pc = "click" => att.click = checkbox_click_attempt
    /\ (pc = "click" \/ (att.click > 0 /\ pc \in { "probe", "newpage",
                                                    "detect", "query",
                                                    "backoff" })) =>
          stats.slept = attempt * attempt_delay
    /\ checkbox_click_attempts <= 0 =>
          (stats.click = 0 /\ att.verify = 0 /\ phase = "pre")

\* with checkbox_click_attempts = 0 the first attempt got a pair from the
\* Waiter and was abandoned without a click
C25_Witness ==
    /\ pc = "loop"
    /\ attempt = 1
    /\ checkbox_click_attempts = 0
    /\ att.pair = 1
    /\ att.click = 0
    /\ stats.detect = 1

\* C27: for every value of solve_attempts, also 0 and negative ones, the
\* call makes at least one detection pass before it returns false.
C27_DetectsBeforeFalse ==
    (SolverDone /\ outcome = "false") => stats.detect >= 1

\* C28: the outcome of the call and the operations it issues are the same
\* with and without debug logging. A call that finds debug logging off at
\* each of the four probe sites never asks for a new page and never ends
\* with the error of new_page(); so no call does, whatever the level of the
\* logger is while it runs.
C28_DebugChangesNothing ==
    /\ pc # "newpage"
    /\ stats.newpage = 0
    /\ outcome # "raise_create"

\* C30: when every new_page() after a crash succeeds, safe_goto ends in one
\* of two ways only: it returns the page on which its last goto call
\* succeeded, or it raises the exception of a failed navigation, also when
\* every attempt ends in a crash.
C30_ReturnsPageOrLastError ==
    (nav.pc = "done" /\ nav.gotos >= 1 /\ nav.result # "raise_create") =>
        \/ /\ nav.result = "page"
           /\ nav.lastCall = "ok"
           /\ nav.lastOk = nav.page
        \/ /\ nav.result = "raise_last"
           /\ nav.last_exc \in 1..nav.gotos

(* ---------------------- claims: get_shadow_roots ----------------------- *)

\* element e is the queryable q or lies below it, through ordinary and
\* shadow trees alike (q = 0: the whole document)
RECURSIVE Below(_, _)
Below(e, q) ==
    \/ q = 0
    \/ e = q
    \/ (e > 0 /\ Below(collector.parent[e], q))

\* C26: get_shadow_roots returns every shadow root that is reachable from
\* the root it was given through any chain of nested shadow hosts, each
\* exactly once, and no shadow root outside the subtree of that root.
C26_AllRootsOfGivenSubtree ==
    collector.result = "list" =>
        /\ Range(collector.shadow_roots)
              = { h \in collector.hosts : Below(h, collector.queryable) }
        /\ Cardinality(Range(collector.shadow_roots))
              = Len(collector.shadow_roots)

====
